---- MODULE Spec2Model ----
(***************************************************************************)
(* Model of src/index.ts (chdb-bun): the one-shot query, the Connection    *)
(* class (constructor, getConnPtr, query, stream), the generator `iterate` *)
(* that drives a streaming query, the result decoder processLocalResultV2, *)
(* the two FinalizationRegistry instances, and parseConnectionString.      *)
(*                                                                         *)
(* The native engine (libchdb) is not part of the repository: each native  *)
(* call's return value is a nondeterministic input.  connect_chdb and      *)
(* query_conn_streaming hand out a handle nobody else holds (connection c  *)
(* gets handle c, stream s gets handle s); NULL is 0.  The chdb_conn* that *)
(* getConnPtr reads through the handle is identified with the handle, or   *)
(* is null: the slot it is read from is the engine's.                      *)
(*                                                                         *)
(* The JavaScript heap is modelled by the reachability of each Connection  *)
(* and of each generator (which alone holds its StreamContext): live ->    *)
(* dropped -> collected; collecting a registered object runs the           *)
(* registry's callback.                                                    *)
(*                                                                         *)
(* Four specifications share the actions: Spec is the program with its     *)
(* garbage collector; FairSpec is Spec with a consumer that ends every     *)
(* cursor and a registry that runs its callbacks; CallSpec keeps in `last` *)
(* what each public call returned or raised, with every object reachable;  *)
(* ParseSpec runs parseConnectionString and the constructor's argument     *)
(* list over a set of DSNs.                                                *)
(***************************************************************************)
EXTENDS Integers, Sequences, FiniteSets, TLC

\* ---------------------------------------------------------------- bounds
MaxConns == 1
MaxStreams == 1
MaxChunks == 2

ConnIds == 1..MaxConns
StreamIds == 1..MaxStreams
NULL == 0

VARIABLES
  conn,            \* per Connection object: reachability, this.ptr, this.path, this.params, argv
  closeCalls,      \* per connection handle: number of close_conn calls
  usedAfterClose,  \* per connection handle: a native call took it after close_conn
  connectionRegistry, \* per Connection: live registrations in connectionRegistry
  stream,          \* per generator: reachability, generator state, ctx, how it ended
  trace,           \* per stream handle: the calls made on it, in order
  fetched,         \* per stream: the blocks chdb_streaming_fetch_result returned, with the accesses made to each
  delivered,       \* per stream: the results yielded to the consumer, in order
  streamErr,       \* per stream: the engine's error state (chdb_streaming_result_error non-null)
  streamRegistry,  \* per StreamContext: live registrations in streamRegistry
  last,            \* the last call of query / new Connection / Connection.query / .stream / .close
                   \* and what the caller saw of it (kept only while recording)
  recording,       \* whether this behaviour keeps `last` (fixed by the initial state)
  input,           \* parser specification: the DSN under test
  parsed           \* parser specification: what parseConnectionString returned for it

vars == <<conn, closeCalls, usedAfterClose, connectionRegistry, stream, trace,
          fetched, delivered, streamErr, streamRegistry, last, recording, input, parsed>>

\* ------------------------------------------------------- native blocks
\* local_result_v2 as far as the code looks at it: error_message non-null,
\* buf non-null, rows_read; ops is the list of accesses made to the block.
Block(e, b, r) == [err |-> e, buf |-> b, rows |-> r, ops |-> <<>>]
\* The blocks a native call may return.  rows_read is read only from a block
\* that has a buffer and no error; that block carries r rows, the others 0.
\* No branch of the code depends on r: the k-th block of a stream carries k
\* rows, so that the order and the number of the results delivered show.
BlockKinds(r) ==
  {Block(FALSE, TRUE, r)}
    \cup {Block(e, FALSE, 0) : e \in BOOLEAN} \cup {Block(TRUE, TRUE, 0)}
NoBlock == Block(FALSE, FALSE, 0)

Touch(b, op) == [b EXCEPT !.ops = Append(@, op)]

RECURSIVE TouchAll(_, _)
TouchAll(b, ops) ==
  IF ops = <<>> THEN b ELSE TouchAll(Touch(b, Head(ops)), Tail(ops))

Count(seq, x) == Cardinality({i \in DOMAIN seq : seq[i] = x})

\* processLocalResultV2 with the free call at the end of the try block instead
\* of in a finally: the error path leaves the block unfreed.
ProcessLocalResultV2FreeInTry(b) ==
  IF b.err
  THEN [block |-> TouchAll(b, <<"readErrPtr", "readErrMsg">>),
        raised |-> TRUE, rows |-> 0]
  ELSE [block |-> TouchAll(b, <<"readErrPtr", "readBufPtr", "readLen",
                                "readData", "readStats", "free">>),
        raised |-> FALSE, rows |-> b.rows]

\* processLocalResultV2: the error pointer is read first; an error raises
\* from inside the try, the finally frees the block on both paths.
ProcessLocalResultV2(b) ==
  IF b.err
  THEN [block |-> TouchAll(b, <<"readErrPtr", "readErrMsg", "free">>),
        raised |-> TRUE, rows |-> 0]
  ELSE [block |-> TouchAll(b, <<"readErrPtr", "readBufPtr", "readLen",
                                "readData", "readStats", "free">>),
        raised |-> FALSE, rows |-> b.rows]

\* ------------------------------------------------------------ strings
\* A string is a sequence of one-character strings.
StartsWith(s, p) == Len(s) >= Len(p) /\ SubSeq(s, 1, Len(p)) = p
\* String.prototype.slice(n) and slice(0, n)
Slice(s, n) == SubSeq(s, n + 1, Len(s))
SliceTo(s, n) == SubSeq(s, 1, n)
\* String.prototype.indexOf(ch): 0-based, -1 when absent
IndexOf(s, ch) ==
  IF \E i \in 1..Len(s) : s[i] = ch
  THEN (CHOOSE i \in 1..Len(s) : s[i] = ch /\ \A j \in 1..(i - 1) : s[j] # ch) - 1
  ELSE -1

RECURSIVE Split(_, _)
Split(s, ch) ==
  LET p == IndexOf(s, ch)
  IN IF p = -1 THEN <<s>> ELSE <<SliceTo(s, p)>> \o Split(Slice(s, p + 1), ch)

RECURSIVE Join(_, _)
Join(parts, sep) ==
  IF parts = <<>> THEN <<>>
  ELSE IF Len(parts) = 1 THEN parts[1]
  ELSE parts[1] \o sep \o Join(Tail(parts), sep)

RECURSIVE SelectNonEmpty(_)
SelectNonEmpty(parts) ==
  IF parts = <<>> THEN <<>>
  ELSE IF Head(parts) = <<>> THEN SelectNonEmpty(Tail(parts))
  ELSE <<Head(parts)>> \o SelectNonEmpty(Tail(parts))

S_memory == <<":", "m", "e", "m", "o", "r", "y", ":">>
S_file == <<"f", "i", "l", "e", ":">>
S_mode == <<"m", "o", "d", "e">>
S_ro == <<"r", "o">>
S_rw == <<"r", "w">>
S_udf_path == <<"u", "d", "f", "_", "p", "a", "t", "h">>
S_dashes == <<"-", "-">>
S_user_scripts_path == <<"u", "s", "e", "r", "_", "s", "c", "r", "i", "p", "t", "s", "_", "p", "a", "t", "h">>
S_udf_config == <<"u", "s", "e", "r", "_", "d", "e", "f", "i", "n", "e", "d", "_", "e", "x", "e", "c", "u", "t", "a", "b", "l", "e", "_", "f", "u", "n", "c", "t", "i", "o", "n", "s", "_", "c", "o", "n", "f", "i", "g">>
S_xml == <<"/", "*", ".", "x", "m", "l">>
S_clickhouse == <<"c", "l", "i", "c", "k", "h", "o", "u", "s", "e">>
S_path_eq == <<"-", "-", "p", "a", "t", "h", "=">>
S_readonly == <<"-", "-", "r", "e", "a", "d", "o", "n", "l", "y", "=", "1">>
S_tmp_db == <<"t", "m", "p", "/", "d", "b">>
\* the process's working directory, which path.resolve starts from
Cwd == <<"/", "w">>

\* ----------------------------------------------------- URLSearchParams
\* application/x-www-form-urlencoded parsing: a leading "?" is dropped, the
\* input is split on "&", empty pieces are skipped, each piece is split at
\* its first "=", and "+" decodes to a space.  (No input here holds "%".)
PlusToSpace(s) == [i \in 1..Len(s) |-> IF s[i] = "+" THEN " " ELSE s[i]]

ParsePair(piece) ==
  LET p == IndexOf(piece, "=")
  IN IF p = -1
     THEN [key |-> PlusToSpace(piece), value |-> <<>>]
     ELSE [key |-> PlusToSpace(SliceTo(piece, p)),
           value |-> PlusToSpace(Slice(piece, p + 1))]

URLSearchParams(init) ==
  LET q == IF StartsWith(init, <<"?">>) THEN Slice(init, 1) ELSE init
      pieces == SelectNonEmpty(Split(q, "&"))
  IN [i \in 1..Len(pieces) |-> ParsePair(pieces[i])]

\* URLSearchParams.get: the value of the FIRST pair with that name, or null
SearchHas(search, k) == \E i \in 1..Len(search) : search[i].key = k
SearchGet(search, k) ==
  search[CHOOSE i \in 1..Len(search) :
           search[i].key = k /\ \A j \in 1..(i - 1) : search[j].key # k].value

\* --------------------------------------------- Record<string, string>
\* A plain object as the sequence of its own properties in creation order.
HasKey(params, k) == \E i \in 1..Len(params) : params[i].key = k
GetKey(params, k) == params[CHOOSE i \in 1..Len(params) : params[i].key = k].value
\* params[k] = v : an existing property keeps its place
SetKey(params, k, v) ==
  IF HasKey(params, k)
  THEN [i \in 1..Len(params) |->
          IF params[i].key = k THEN [key |-> k, value |-> v] ELSE params[i]]
  ELSE Append(params, [key |-> k, value |-> v])

RECURSIVE DeleteKey(_, _)
DeleteKey(params, k) ==
  IF params = <<>> THEN <<>>
  ELSE IF Head(params).key = k THEN DeleteKey(Tail(params), k)
  ELSE <<Head(params)>> \o DeleteKey(Tail(params), k)

RECURSIVE SetAll(_, _)
SetAll(params, search) ==
  IF search = <<>> THEN params
  ELSE SetAll(SetKey(params, Head(search).key, Head(search).value), Tail(search))

\* Object.entries: integer-index keys first, ascending, then the other keys
\* in creation order.
DigitVal(c) ==
  CASE c = "0" -> 0 [] c = "1" -> 1 [] c = "2" -> 2 [] c = "3" -> 3
    [] c = "4" -> 4 [] c = "5" -> 5 [] c = "6" -> 6 [] c = "7" -> 7
    [] c = "8" -> 8 [] c = "9" -> 9 [] OTHER -> -1

IsIndexKey(k) ==
  /\ Len(k) >= 1
  /\ Len(k) <= 9
  /\ \A i \in 1..Len(k) : DigitVal(k[i]) >= 0
  /\ (Len(k) > 1 => k[1] # "0")

RECURSIVE NumVal(_)
NumVal(k) == IF k = <<>> THEN 0 ELSE NumVal(SliceTo(k, Len(k) - 1)) * 10 + DigitVal(k[Len(k)])

RECURSIVE FilterKeys(_, _)
FilterKeys(params, wantIndex) ==
  IF params = <<>> THEN <<>>
  ELSE IF IsIndexKey(Head(params).key) = wantIndex
       THEN <<Head(params)>> \o FilterKeys(Tail(params), wantIndex)
       ELSE FilterKeys(Tail(params), wantIndex)

RECURSIVE SortByNum(_)
SortByNum(ps) ==
  IF ps = <<>> THEN <<>>
  ELSE LET m == CHOOSE i \in 1..Len(ps) :
                  \A j \in 1..Len(ps) : NumVal(ps[i].key) <= NumVal(ps[j].key)
       IN <<ps[m]>> \o SortByNum(SubSeq(ps, 1, m - 1) \o SubSeq(ps, m + 1, Len(ps)))

ObjectEntries(params) == SortByNum(FilterKeys(params, TRUE)) \o FilterKeys(params, FALSE)

\* ---------------------------------------------------------- path.resolve
\* path.resolve(str) for a relative str: the segments of cwd + "/" + str,
\* with empty and "." segments dropped and ".." removing its predecessor.
RECURSIVE NormalizeSegs(_, _)
NormalizeSegs(segs, acc) ==
  IF segs = <<>> THEN acc
  ELSE LET h == Head(segs)
       IN IF h = <<>> \/ h = <<".">> THEN NormalizeSegs(Tail(segs), acc)
          ELSE IF h = <<".", ".">>
               THEN NormalizeSegs(Tail(segs),
                                  IF acc = <<>> THEN acc ELSE SliceTo(acc, Len(acc) - 1))
               ELSE NormalizeSegs(Tail(segs), Append(acc, h))

PathResolve(str) ==
  LET segs == NormalizeSegs(Split(Cwd \o <<"/">> \o str, "/"), <<>>)
  IN <<"/">> \o Join(segs, <<"/">>)

\* ------------------------------------------------ parseConnectionString
\* the prefix rule with one slash dropped whenever two lead what is left
StripFilePrefixCollapseOne(str) ==
  IF StartsWith(str, S_file)
  THEN LET rest == Slice(str, 5)
       IN IF StartsWith(rest, <<"/", "/">>) THEN Slice(rest, 1) ELSE rest
  ELSE str

\* The "file:" prefix: five characters are dropped, and when what is left
\* starts with three slashes, two more.
StripFilePrefix(str) ==
  IF StartsWith(str, S_file)
  THEN LET rest == Slice(str, 5)
       IN IF StartsWith(rest, <<"/", "/", "/">>) THEN Slice(rest, 2) ELSE rest
  ELSE str

\* The query component: every pair is assigned in order (the last value of a
\* key stays); udfPath is what URLSearchParams.get returns and is used only
\* when truthy.
QueryParams(search) ==
  LET params == SetAll(<<>>, search)
      udfPath == IF SearchHas(search, S_udf_path)
                 THEN SearchGet(search, S_udf_path) ELSE <<>>
  IN IF SearchHas(search, S_udf_path) /\ udfPath # <<>>
     THEN DeleteKey(
            SetKey(SetKey(SetKey(params, S_dashes, <<>>),
                          S_user_scripts_path, udfPath),
                   S_udf_config, udfPath \o S_xml),
            S_udf_path)
     ELSE params

ResolvePath(str) ==
  IF str # <<>> /\ str[1] # "/" /\ str # S_memory THEN PathResolve(str) ELSE str

parseConnectionString(str) ==
  IF str = <<>> \/ str = S_memory
  THEN [path |-> S_memory, params |-> <<>>]
  ELSE LET s1 == StripFilePrefix(str)
           queryPos == IndexOf(s1, "?")
       IN IF queryPos # -1
          THEN [path |-> ResolvePath(SliceTo(s1, queryPos)),
                params |-> QueryParams(URLSearchParams(Slice(s1, queryPos + 1)))]
          ELSE [path |-> ResolvePath(s1), params |-> <<>>]

\* ------------------------------------ Connection constructor: argument list
\* the loop body with `mode` forwarded like any other key when it is not "ro"
ParamArgModeForwarded(e) ==
  IF e.key = S_mode /\ e.value = S_ro THEN <<S_readonly>>
  ELSE IF e.key = S_dashes THEN <<S_dashes>>
  ELSE IF e.value = <<>> THEN <<S_dashes \o e.key>>
  ELSE <<S_dashes \o e.key \o <<"=">> \o e.value>>

\* One turn of the loop over Object.entries(params): the arguments pushed
\* for one entry (none for a `mode` other than "ro").
ParamArg(e) ==
  IF e.key = S_mode
  THEN (IF e.value = S_ro THEN <<S_readonly>> ELSE <<>>)
  ELSE IF e.key = S_dashes THEN <<S_dashes>>
  ELSE IF e.value = <<>> THEN <<S_dashes \o e.key>>
  ELSE <<S_dashes \o e.key \o <<"=">> \o e.value>>

RECURSIVE ParamArgs(_)
ParamArgs(entries) ==
  IF entries = <<>> THEN <<>>
  ELSE ParamArg(Head(entries)) \o ParamArgs(Tail(entries))

ConnectionArgs(path, params) ==
  <<S_clickhouse>>
    \o (IF path # S_memory THEN <<S_path_eq \o path>> ELSE <<>>)
    \o ParamArgs(ObjectEntries(params))

\* ------------------------------------------------------------- DSN inputs
Prefixes == {<<>>, S_file}
Slashes == {<<>>, <<"/">>, <<"/", "/">>, <<"/", "/", "/">>, <<"/", "/", "/", "/">>}
Bodies == {<<>>, S_tmp_db, S_memory, <<"d">>, <<"a", "/", ".", ".", "/", "b">>}
Queries ==
  { <<>>,
    <<"?">> \o S_mode \o <<"=">> \o S_ro,
    <<"?">> \o S_mode \o <<"=">> \o S_rw,
    <<"?">> \o S_udf_path \o <<"=", "u">>,
    <<"?">> \o S_udf_path \o <<"=", "u", "&">> \o S_udf_path \o <<"=", "v">>,
    <<"?">> \o S_udf_path \o <<"=", "&">> \o S_udf_path \o <<"=", "v">>,
    <<"?">> \o S_udf_path \o <<"=">>,
    <<"?", "a", "=", "1", "&", "a", "=", "2">>,
    <<"?", "a">>,
    <<"?", "-", "-", "=", "x">>,
    <<"?", "a", "=", "b", "+", "c">>,
    <<"?", "?", "a", "=", "1">>,
    <<"?", "&", "&", "a", "=", "1", "&">>,
    <<"?", "b", "=", "y", "&", "1", "=", "x", "&", "0", "=", "z">>,
    <<"?", "a", "=", "1", "&">> \o S_mode \o <<"=">> \o S_ro \o <<"&">> \o S_udf_path \o <<"=", "u">> }
DSNs == {p \o sl \o b \o q : p \in Prefixes, sl \in Slashes, b \in Bodies, q \in Queries}

\* the DSNs the lifecycle specification constructs Connections from
S_example == S_file \o <<"/", "/", "/">> \o S_tmp_db \o <<"?">> \o S_mode \o <<"=">> \o S_ro
LifeDSNs == {S_example}

\* ------------------------------------------------------- initial state
NoConn == [obj |-> "absent", ptr |-> NULL, path |-> <<>>, params |-> <<>>, args |-> <<>>]
NoStream == [obj |-> "absent", gen |-> "none", conn |-> NULL, connPtr |-> NULL, exit |-> "none"]
NoCall == [op |-> "none", conn |-> NULL, handle |-> NULL, ret |-> "none",
           raised |-> FALSE, block |-> NoBlock, rows |-> 0]
NoParse == [done |-> FALSE, path |-> <<>>, params |-> <<>>]

LifeInit ==
  /\ conn = [c \in ConnIds |-> NoConn]
  /\ closeCalls = [c \in ConnIds |-> 0]
  /\ usedAfterClose = [c \in ConnIds |-> FALSE]
  /\ connectionRegistry = [c \in ConnIds |-> 0]
  /\ stream = [s \in StreamIds |-> NoStream]
  /\ trace = [s \in StreamIds |-> <<>>]
  /\ fetched = [s \in StreamIds |-> <<>>]
  /\ delivered = [s \in StreamIds |-> <<>>]
  /\ streamErr = [s \in StreamIds |-> FALSE]
  /\ streamRegistry = [s \in StreamIds |-> 0]
  /\ last = NoCall

Init == LifeInit /\ recording = FALSE /\ input = <<>> /\ parsed = NoParse

parserVars == <<input, parsed, recording>>

\* what a call leaves in `last`
Rec(call) == IF recording THEN call ELSE NoCall
connVars == <<conn, closeCalls, connectionRegistry>>
streamVars == <<stream, trace, fetched, delivered, streamErr, streamRegistry>>

\* a native call that takes connection handle h
Use(h) == [usedAfterClose EXCEPT ![h] = @ \/ closeCalls[h] > 0]

\* ------------------------------------------------------ one-shot query
\* The tail shared by query() and Connection.query(): a null result pointer
\* raises; any other is handed to processLocalResultV2.
CallResult(op, c, h, isNull, b) ==
  IF isNull
  THEN [NoCall EXCEPT !.op = op, !.conn = c, !.handle = h, !.ret = "null", !.raised = TRUE]
  ELSE LET r == ProcessLocalResultV2(b)
       IN [NoCall EXCEPT !.op = op, !.conn = c, !.handle = h, !.ret = "block",
                         !.raised = r.raised, !.block = r.block, !.rows = r.rows]

\* query(): query_stable_v2, then the shared tail
Query ==
  /\ \E isNull \in BOOLEAN, b \in BlockKinds(1) :
       /\ isNull => b = NoBlock
       /\ last' = Rec(CallResult("query", NULL, NULL, isNull, b))
  /\ UNCHANGED <<connVars, usedAfterClose, streamVars, parserVars>>

\* ----------------------------------------------------------- Connection
\* the Connection registered a second time
RegisterConnectionTwice(c) == [connectionRegistry EXCEPT ![c] = @ + 2]

\* connectionRegistry.register(this, this.ptr)
RegisterConnection(c) == [connectionRegistry EXCEPT ![c] = @ + 1]

\* new Connection(dsn): parse, build the argument list, connect_chdb; a null
\* return raises before this.ptr is set and before the registration.
Construct(c, dsn, ok) ==
  /\ conn[c].obj = "absent"
  /\ \A d \in ConnIds : d < c => conn[d].obj # "absent"
  /\ LET p == parseConnectionString(dsn)
         args == ConnectionArgs(p.path, p.params)
     IN IF ok
        THEN /\ conn' = [conn EXCEPT ![c] = [obj |-> "live", ptr |-> c, path |-> p.path,
                                              params |-> p.params, args |-> args]]
             /\ connectionRegistry' = RegisterConnection(c)
             /\ last' = Rec([NoCall EXCEPT !.op = "connect", !.conn = c, !.handle = c,
                                            !.ret = "ptr"])
        ELSE /\ conn' = [conn EXCEPT ![c] = [obj |-> "failed", ptr |-> NULL, path |-> p.path,
                                              params |-> p.params, args |-> args]]
             /\ UNCHANGED connectionRegistry
             /\ last' = Rec([NoCall EXCEPT !.op = "connect", !.conn = c, !.ret = "null",
                                            !.raised = TRUE])
  /\ UNCHANGED <<closeCalls, usedAfterClose, streamVars, parserVars>>

\* getConnPtr: read.ptr(this.ptr, 0), the chdb_conn* in the slot the handle
\* points to.  The slot is the engine's memory: what is read is the
\* connection, or null when the engine has cleared the slot ("corrupted or
\* closed"); through a handle that close_conn has released the read is
\* undefined and may give either as well.
GetConnPtr(c) == {NULL, conn[c].ptr}

\* Connection.query that closes the connection once it has its result, the
\* way the one-shot query ends its session
ConnQueryThenClose(c) ==
  /\ conn[c].obj = "live"
  /\ \E connPtr \in GetConnPtr(c), isNull \in BOOLEAN, b \in BlockKinds(1) :
       /\ isNull => b = NoBlock
       /\ IF connPtr = NULL
          THEN /\ isNull
               /\ last' = Rec([NoCall EXCEPT !.op = "connQuery", !.conn = c, !.raised = TRUE])
               /\ UNCHANGED <<usedAfterClose, closeCalls>>
          ELSE /\ usedAfterClose' = Use(connPtr)
               /\ closeCalls' = [closeCalls EXCEPT ![connPtr] = @ + 1]
               /\ last' = Rec(CallResult("connQuery", c, connPtr, isNull, b))
  /\ UNCHANGED <<conn, connectionRegistry, streamVars, parserVars>>

\* Connection.query without getConnPtr's null test: query_conn is called
\* with whatever was read
ConnQueryUnchecked(c) ==
  /\ conn[c].obj = "live"
  /\ \E connPtr \in GetConnPtr(c), isNull \in BOOLEAN, b \in BlockKinds(1) :
       /\ isNull => b = NoBlock
       /\ usedAfterClose' = (IF connPtr = NULL THEN usedAfterClose ELSE Use(connPtr))
       /\ last' = Rec(CallResult("connQuery", c, connPtr, isNull, b))
  /\ UNCHANGED <<connVars, streamVars, parserVars>>

\* Connection.query: getConnPtr raises on a null pointer; otherwise
\* query_conn with that pointer, then the shared tail
ConnQuery(c) ==
  /\ conn[c].obj = "live"
  /\ \E connPtr \in GetConnPtr(c), isNull \in BOOLEAN, b \in BlockKinds(1) :
       /\ isNull => b = NoBlock
       /\ IF connPtr = NULL
          THEN /\ isNull
               /\ last' = Rec([NoCall EXCEPT !.op = "connQuery", !.conn = c, !.raised = TRUE])
               /\ UNCHANGED usedAfterClose
          ELSE /\ usedAfterClose' = Use(connPtr)
               /\ last' = Rec(CallResult("connQuery", c, connPtr, isNull, b))
  /\ UNCHANGED <<connVars, streamVars, parserVars>>

\* The class has no close member: conn.close() is a call of undefined and
\* raises a TypeError; nothing is unregistered, closed or cleared.
Close(c) ==
  /\ conn[c].obj = "live"
  /\ last' = Rec([NoCall EXCEPT !.op = "close", !.conn = c, !.handle = conn[c].ptr,
                                 !.raised = TRUE])
  /\ UNCHANGED <<connVars, usedAfterClose, streamVars, parserVars>>

\* ctx registered a second time
RegisterStreamTwice(s) == [streamRegistry EXCEPT ![s] = @ + 2]

\* streamRegistry.register(ctx, [connPtr, streamPtr], ctx)
RegisterStream(s) == [streamRegistry EXCEPT ![s] = @ + 1]

\* Connection.stream: getConnPtr, query_conn_streaming; a null return raises
\* before ctx exists; otherwise ctx is registered and the generator returned
\* (its body has not started).  initErr is the engine's error state for the
\* new stream.
StreamStart(c, s) ==
  /\ conn[c].obj = "live"
  /\ stream[s].obj = "absent"
  /\ \A t \in StreamIds : t < s => stream[t].obj # "absent"
  /\ \E connPtr \in GetConnPtr(c), ok \in BOOLEAN, initErr \in BOOLEAN :
       IF connPtr = NULL
       THEN /\ ~ok /\ ~initErr
            /\ last' = Rec([NoCall EXCEPT !.op = "stream", !.conn = c, !.raised = TRUE])
            /\ UNCHANGED <<usedAfterClose, streamVars>>
       ELSE /\ usedAfterClose' = Use(connPtr)
            /\ IF ok
               THEN /\ stream' = [stream EXCEPT ![s] =
                                    [obj |-> "live", gen |-> "suspendedStart", conn |-> c,
                                     connPtr |-> connPtr, exit |-> "none"]]
                    /\ streamRegistry' = RegisterStream(s)
                    /\ streamErr' = [streamErr EXCEPT ![s] = initErr]
                    /\ last' = Rec([NoCall EXCEPT !.op = "stream", !.conn = c,
                                                  !.handle = connPtr, !.ret = "ptr"])
                    /\ UNCHANGED <<trace, fetched, delivered>>
               ELSE /\ ~initErr
                    /\ last' = Rec([NoCall EXCEPT !.op = "stream", !.conn = c,
                                                  !.handle = connPtr, !.ret = "null",
                                              !.raised = TRUE])
                    /\ UNCHANGED streamVars
  /\ UNCHANGED <<connVars, parserVars>>

\* ------------------------------------------------- the generator iterate
\* the finally block without its unregister call
IterateFinallyNoUnregister(s, tr) ==
  /\ UNCHANGED streamRegistry
  /\ trace' = [trace EXCEPT ![s] = tr \o <<"destroy">>]

\* finally { streamRegistry.unregister(ctx); chdb_destroy_result(streamPtr) }
IterateFinally(s, tr) ==
  /\ streamRegistry' = [streamRegistry EXCEPT ![s] = 0]
  /\ trace' = [trace EXCEPT ![s] = tr \o <<"unregister", "destroy">>]

\* the generator body is left (break, throw, or a return/throw injected at
\* the yield): the finally block runs and the generator is completed
Finish(s, tr, how) ==
  /\ IterateFinally(s, tr)
  /\ stream' = [stream EXCEPT ![s].gen = "completed", ![s].exit = how]

\* a loop that decodes the chunk but yields only the first one
DeliverFirstOnly(results, r) == IF results = <<>> THEN Append(results, r.rows) ELSE results

\* yield processLocalResultV2(resultChunkPtr): the decoded result goes to the consumer
Deliver(results, r) == Append(results, r.rows)

\* What chdb_streaming_fetch_result may answer: null (and the stream's error
\* state is then as before, or set), or one more block while the stream has
\* returned fewer than MaxChunks.
FetchAnswers(s) ==
  {[null |-> TRUE, block |-> NoBlock, err |-> e] : e \in {streamErr[s], TRUE}}
    \cup (IF Len(fetched[s]) < MaxChunks
          THEN {[null |-> FALSE, block |-> b, err |-> streamErr[s]] : b \in BlockKinds(Len(fetched[s]) + 1)}
          ELSE {})

\* the initial check with its result ignored
initialErrorPtrIgnored(s) == FALSE

\* initialErrorPtr: what chdb_streaming_result_error answers when the
\* generator body starts (non-null or null)
initialErrorPtr(s) == streamErr[s]

\* generator.next() on a suspended generator: from the start, the initial
\* error check; then one turn of the loop up to the yield or out of the body.
Pull(s) ==
  /\ stream[s].obj = "live"
  /\ stream[s].gen \in {"suspendedStart", "suspendedYield"}
  /\ LET first == stream[s].gen = "suspendedStart"
         t0 == IF first THEN Append(trace[s], "error") ELSE trace[s]
         t1 == Append(t0, "fetch")
     IN IF first /\ initialErrorPtr(s)
        THEN /\ Finish(s, t0, "initError")
             /\ UNCHANGED <<fetched, delivered, streamErr, usedAfterClose>>
        ELSE \E a \in FetchAnswers(s) :
               /\ usedAfterClose' = Use(stream[s].connPtr)
               /\ streamErr' = [streamErr EXCEPT ![s] = a.err]
               /\ IF a.null
                  THEN /\ Finish(s, Append(t1, "error"),
                                 IF a.err THEN "fetchError" ELSE "nullReturn")
                       /\ UNCHANGED <<fetched, delivered>>
                  ELSE LET b1 == Touch(a.block, "readBufPtr")
                       IN IF ~a.block.buf
                          THEN /\ fetched' = [fetched EXCEPT ![s] = Append(@, Touch(b1, "free"))]
                               /\ Finish(s, t1, "nullBuf")
                               /\ UNCHANGED delivered
                          ELSE LET r == ProcessLocalResultV2(b1)
                               IN /\ fetched' = [fetched EXCEPT ![s] = Append(@, r.block)]
                                  /\ IF r.raised
                                     THEN /\ Finish(s, t1, "blockError")
                                          /\ UNCHANGED delivered
                                     ELSE /\ delivered' = [delivered EXCEPT ![s] = Deliver(@, r)]
                                          /\ stream' = [stream EXCEPT ![s].gen = "suspendedYield"]
                                          /\ trace' = [trace EXCEPT ![s] = t1]
                                          /\ UNCHANGED streamRegistry
  /\ UNCHANGED <<connVars, last, parserVars>>

\* a cursor that fetches again when pulled after its end
PullDoneFetches(s) ==
  /\ stream[s].obj = "live"
  /\ stream[s].gen = "completed"
  /\ trace' = [trace EXCEPT ![s] = Append(@, "fetch")]
  /\ UNCHANGED <<connVars, usedAfterClose, stream, fetched, delivered, streamErr,
                 streamRegistry, last, parserVars>>

\* generator.next() on a completed generator: { done: true }, nothing runs
PullDone(s) ==
  /\ stream[s].obj = "live"
  /\ stream[s].gen = "completed"
  /\ UNCHANGED vars

\* generator.return(), which leaving a for..of loop early (break, or an
\* exception in the loop body) calls: at the yield the finally block runs;
\* before the first next() the body, and so the finally block, never runs.
Return(s) ==
  /\ stream[s].obj = "live"
  /\ \/ /\ stream[s].gen = "suspendedYield"
        /\ Finish(s, trace[s], "return")
     \/ /\ stream[s].gen = "suspendedStart"
        /\ stream' = [stream EXCEPT ![s].gen = "completed", ![s].exit = "return"]
        /\ UNCHANGED <<trace, streamRegistry>>
  /\ UNCHANGED <<connVars, usedAfterClose, fetched, delivered, streamErr, last, parserVars>>

\* ------------------------------------------------- garbage collection
\* connectionRegistry's callback: close_conn(connPtr)
ConnectionCallback(c) == [closeCalls EXCEPT ![c] = @ + 1]

\* a callback that destroys without cancelling
StreamCallbackDestroyOnly(tr) == tr \o <<"destroy">>

\* streamRegistry's callback: cancel, then destroy
StreamCallback(tr) == tr \o <<"cancel", "destroy">>

\* the program drops its last reference to the Connection
DropConn(c) ==
  /\ conn[c].obj = "live"
  /\ conn' = [conn EXCEPT ![c].obj = "dropped"]
  /\ UNCHANGED <<closeCalls, connectionRegistry, usedAfterClose, streamVars, last, parserVars>>

\* the Connection is collected and the registry runs the callback of one of
\* its registrations
CollectConn(c) ==
  /\ conn[c].obj \in {"dropped", "collected"}
  /\ connectionRegistry[c] > 0
  /\ conn' = [conn EXCEPT ![c].obj = "collected"]
  /\ connectionRegistry' = [connectionRegistry EXCEPT ![c] = @ - 1]
  /\ closeCalls' = ConnectionCallback(c)
  /\ UNCHANGED <<usedAfterClose, streamVars, last, parserVars>>

\* the consumer drops the generator, which alone holds ctx
DropStream(s) ==
  /\ stream[s].obj = "live"
  /\ stream' = [stream EXCEPT ![s].obj = "dropped"]
  /\ UNCHANGED <<connVars, usedAfterClose, trace, fetched, delivered, streamErr,
                 streamRegistry, last, parserVars>>

\* a stream callback that also closes the connection it was started on
CollectStreamClosesConn(s) ==
  /\ stream[s].obj \in {"dropped", "collected"}
  /\ streamRegistry[s] > 0
  /\ stream' = [stream EXCEPT ![s].obj = "collected"]
  /\ streamRegistry' = [streamRegistry EXCEPT ![s] = @ - 1]
  /\ trace' = [trace EXCEPT ![s] = StreamCallback(@)]
  /\ usedAfterClose' = Use(stream[s].connPtr)
  /\ closeCalls' = [closeCalls EXCEPT ![stream[s].connPtr] = @ + 1]
  /\ UNCHANGED <<conn, connectionRegistry, fetched, delivered, streamErr, last, parserVars>>

\* ctx is collected and the registry runs the callback of one of its
\* registrations
CollectStream(s) ==
  /\ stream[s].obj \in {"dropped", "collected"}
  /\ streamRegistry[s] > 0
  /\ stream' = [stream EXCEPT ![s].obj = "collected"]
  /\ streamRegistry' = [streamRegistry EXCEPT ![s] = @ - 1]
  /\ trace' = [trace EXCEPT ![s] = StreamCallback(@)]
  /\ usedAfterClose' = Use(stream[s].connPtr)
  /\ UNCHANGED <<connVars, fetched, delivered, streamErr, last, parserVars>>

\* --------------------------------------------------------- specification
\* The program with its garbage collector.
Next ==
  \/ Query
  \/ \E c \in ConnIds, dsn \in LifeDSNs, ok \in BOOLEAN : Construct(c, dsn, ok)
  \/ \E c \in ConnIds : ConnQuery(c)
  \/ \E c \in ConnIds : Close(c)
  \/ \E c \in ConnIds, s \in StreamIds : StreamStart(c, s)
  \/ \E s \in StreamIds : Pull(s)
  \/ \E s \in StreamIds : PullDone(s)
  \/ \E s \in StreamIds : Return(s)
  \/ \E c \in ConnIds : DropConn(c)
  \/ \E c \in ConnIds : CollectConn(c)
  \/ \E s \in StreamIds : DropStream(s)
  \/ \E s \in StreamIds : CollectStream(s)

Spec == Init /\ [][Next]_vars

\* what the consumer of a cursor that can still be pulled does with it
ConsumerStep(s) ==
  /\ stream[s].gen \in {"suspendedStart", "suspendedYield"}
  /\ (Pull(s) \/ Return(s) \/ DropStream(s))

\* The program with a consumer that eventually pulls to the end, returns or
\* drops every cursor, and a registry that eventually runs the callback of
\* every collected object it still has registered.
FairSpec ==
  /\ Init /\ [][Next]_vars
  /\ \A s \in StreamIds : WF_vars(ConsumerStep(s))
  /\ \A s \in StreamIds : WF_vars(CollectStream(s))
  /\ \A c \in ConnIds : WF_vars(CollectConn(c))

\* The program's calls with what each returned to its caller kept in `last`,
\* while every object stays reachable.
CallInit == LifeInit /\ recording = TRUE /\ input = <<>> /\ parsed = NoParse

CallNext ==
  \/ Query
  \/ \E c \in ConnIds, dsn \in LifeDSNs, ok \in BOOLEAN : Construct(c, dsn, ok)
  \/ \E c \in ConnIds : ConnQuery(c)
  \/ \E c \in ConnIds : Close(c)
  \/ \E c \in ConnIds, s \in StreamIds : StreamStart(c, s)
  \/ \E s \in StreamIds : Pull(s)
  \/ \E s \in StreamIds : PullDone(s)
  \/ \E s \in StreamIds : Return(s)

CallSpec == CallInit /\ [][CallNext]_vars

\* The parser on its own: a DSN is drawn, parsed, and a Connection built
\* from it.
ParseInit == LifeInit /\ recording = FALSE /\ input \in DSNs /\ parsed = NoParse

Parse ==
  /\ ~parsed.done
  /\ LET p == parseConnectionString(input)
     IN parsed' = [done |-> TRUE, path |-> p.path, params |-> p.params]
  /\ UNCHANGED <<connVars, usedAfterClose, streamVars, last, input, recording>>

Build == \E ok \in BOOLEAN : Construct(1, input, ok)

ParseNext == Parse \/ Build

ParseSpec == ParseInit /\ [][ParseNext]_vars

\* =================================================================
\* Properties
\* =================================================================
Events(s) == {trace[s][i] : i \in DOMAIN trace[s]}
Pos(seq, x) == CHOOSE i \in DOMAIN seq : seq[i] = x
Created(s) == stream[s].obj # "absent"
\* the finally block of iterate has run
CleanupRan(s) == "unregister" \in Events(s)
\* the generator body was entered and has been left
IterationExited(s) == stream[s].gen = "completed" /\ CleanupRan(s)

RECURSIVE SumSeq(_)
SumSeq(seq) == IF seq = <<>> THEN 0 ELSE Head(seq) + SumSeq(Tail(seq))

\* C1: on every exit path from iteration (exhaustion, early abandonment, an
\* error raised mid-iteration) the cleanup has called native cancel exactly
\* once and then native destroy exactly once on the stream handle.
C1_CleanupCancelsThenDestroys ==
  \A s \in StreamIds :
    IterationExited(s) =>
      /\ Count(trace[s], "cancel") = 1
      /\ Count(trace[s], "destroy") = 1
      /\ Pos(trace[s], "cancel") < Pos(trace[s], "destroy")

\* C2: per stream handle destroy is called at most once and per connection
\* handle close is called at most once; the explicit stream cleanup
\* unregisters before it destroys, and after it the registry's callback
\* (whose mark is the cancel call) never runs for that handle.
C2_ReleaseAtMostOnce ==
  /\ \A c \in ConnIds : closeCalls[c] <= 1
  /\ \A s \in StreamIds :
       /\ Count(trace[s], "destroy") <= 1
       /\ CleanupRan(s) =>
            /\ "destroy" \in Events(s)
            /\ Pos(trace[s], "unregister") < Pos(trace[s], "destroy")
            /\ "cancel" \notin Events(s)
            /\ streamRegistry[s] = 0

\* C2 witness: a cursor whose explicit cleanup ran has been dropped, and a
\* Connection has been collected and closed by the callback.
C2_Witness ==
  \E s \in StreamIds, c \in ConnIds :
    /\ CleanupRan(s) /\ stream[s].obj = "dropped"
    /\ conn[c].obj = "collected" /\ closeCalls[c] = 1

\* the last fetch returned null
NullReturned(s) ==
  \E i \in DOMAIN trace[s] :
    i + 1 \in DOMAIN trace[s] /\ trace[s][i] = "fetch" /\ trace[s][i + 1] = "error"

\* C3: when the engine answered the fetches of a stream with error-free
\* blocks and then null with no stream error set, the sequence ended without
\* raising and the consumer received one result per block, in fetch order;
\* the rowsRead delivered sum to the rows the engine returned.
C3_AllChunksDelivered ==
  \A s \in StreamIds :
    (/\ NullReturned(s)
     /\ ~streamErr[s]
     /\ \A i \in DOMAIN fetched[s] : ~fetched[s][i].err)
    => /\ stream[s].exit = "nullReturn"
       /\ delivered[s] = [i \in DOMAIN fetched[s] |-> fetched[s][i].rows]
       /\ SumSeq(delivered[s]) = SumSeq([i \in DOMAIN fetched[s] |-> fetched[s][i].rows])

\* C3 witness: a stream of at least two blocks pulled to its end
C3_Witness ==
  \E s \in StreamIds :
    /\ NullReturned(s) /\ ~streamErr[s]
    /\ Len(fetched[s]) >= 2
    /\ \A i \in DOMAIN fetched[s] : ~fetched[s][i].err
    /\ stream[s].exit = "nullReturn"

\* C4: a stream on which an error surfaced (its error state is set, or a
\* fetched block carries an error message) never ends as a normal end of
\* sequence.
C4_ErrorNeverEndsNormally ==
  \A s \in StreamIds :
    stream[s].exit \in {"nullReturn", "nullBuf"} =>
      /\ ~streamErr[s]
      /\ \A i \in DOMAIN fetched[s] : ~fetched[s][i].err

\* what C5 asks of one block and of the call that decoded it
ErrorBlockRaisesUnread(b, raised) ==
  b.err =>
    /\ raised
    /\ "readBufPtr" \notin {b.ops[i] : i \in DOMAIN b.ops}
    /\ "readData" \notin {b.ops[i] : i \in DOMAIN b.ops}
    /\ Count(b.ops, "free") = 1

\* C5: a block with a non-null error field raises before the data field is
\* read and is freed exactly once, for the blocks of the one-shot query, of
\* the query on a connection and of the streaming fetch.
C5_ErrorBlockRaisesBeforeData ==
  /\ last.ret = "block" => ErrorBlockRaisesUnread(last.block, last.raised)
  /\ \A s \in StreamIds : \A i \in DOMAIN fetched[s] :
       ErrorBlockRaisesUnread(fetched[s][i],
                              i = Len(fetched[s]) /\ stream[s].exit = "blockError")

FreedOnceAtEnd(b) ==
  /\ Count(b.ops, "free") = 1
  /\ b.ops[Len(b.ops)] = "free"

\* C6: every block a native call returned (one-shot query, query on a
\* connection, streaming fetch) has been freed exactly once, as the last
\* access made to it.
C6_BlocksFreedOnce ==
  /\ last.ret = "block" => FreedOnceAtEnd(last.block)
  /\ \A s \in StreamIds : \A i \in DOMAIN fetched[s] : FreedOnceAtEnd(fetched[s][i])

\* C6 witness: a stream has ended on a block with an error message and a
\* query on the connection has then returned a block with one too
C6_Witness ==
  /\ last.op = "connQuery" /\ last.ret = "block" /\ last.block.err
  /\ \E s \in StreamIds :
       /\ stream[s].exit = "blockError"
       /\ fetched[s][Len(fetched[s])].err

\* C7: close() never raises, calls native close exactly once in total,
\* unregisters the Connection and clears the stored handle.
C7_CloseIdempotent ==
  last.op = "close" =>
    /\ ~last.raised
    /\ closeCalls[last.handle] = 1
    /\ connectionRegistry[last.conn] = 0
    /\ conn[last.conn].ptr = NULL

\* C8: a registered object collected without an explicit release has had the
\* registry's callback run exactly once for it: close on the connection
\* handle, cancel followed by destroy on the stream handle; until then the
\* object is registered once and its handle is unreleased.
C8_CollectedIsReleasedOnce ==
  /\ \A c \in ConnIds :
       /\ conn[c].obj \in {"live", "dropped"} =>
            connectionRegistry[c] = 1 /\ closeCalls[c] = 0
       /\ conn[c].obj = "collected" =>
            connectionRegistry[c] = 0 /\ closeCalls[c] = 1
  /\ \A s \in StreamIds :
       /\ (stream[s].obj \in {"live", "dropped"} /\ ~CleanupRan(s)) =>
            /\ streamRegistry[s] = 1
            /\ "cancel" \notin Events(s) /\ "destroy" \notin Events(s)
       /\ stream[s].obj = "collected" =>
            /\ streamRegistry[s] = 0
            /\ ~CleanupRan(s)
            /\ Count(trace[s], "cancel") = 1
            /\ Count(trace[s], "destroy") = 1
            /\ Len(trace[s]) >= 2
            /\ SubSeq(trace[s], Len(trace[s]) - 1, Len(trace[s])) = <<"cancel", "destroy">>

\* C8 witness: a cursor dropped between two pulls and a Connection have both
\* been collected
C8_Witness ==
  \E s \in StreamIds, c \in ConnIds :
    /\ stream[s].obj = "collected" /\ stream[s].gen = "suspendedYield"
    /\ conn[c].obj = "collected"

\* C9: Connection.query and Connection.stream leave the Connection's handle,
\* path and params as they were and call no native close; the handle each
\* passes to the engine, and the one a stream keeps, is the Connection's own.
C9_QueriesShareTheHandle ==
  /\ [](/\ (last.op \in {"connQuery", "stream"} /\ last.ret # "none") =>
             last.handle # NULL /\ last.handle = conn[last.conn].ptr
        /\ \A s \in StreamIds :
             Created(s) => stream[s].connPtr = conn[stream[s].conn].ptr
        /\ (last.op = "connect" /\ last.ret = "ptr") =>
             conn[last.conn].ptr = last.handle)
  /\ [][(last' # last /\ last'.op \in {"connQuery", "stream"}) =>
          (conn' = conn /\ closeCalls' = closeCalls)]_vars

\* C9 witness: a query on a Connection that has a stream already pulled from
C9_Witness ==
  /\ last.op = "connQuery" /\ last.ret = "block" /\ ~last.raised
  /\ \E s \in StreamIds :
       Created(s) /\ stream[s].conn = last.conn /\ Len(delivered[s]) >= 1

RECURSIVE LeadingSlashes(_)
LeadingSlashes(str) ==
  IF str # <<>> /\ Head(str) = "/" THEN 1 + LeadingSlashes(Tail(str)) ELSE 0

\* the part of a DSN before its first "?"
PathPart(str) == IF IndexOf(str, "?") = -1 THEN str ELSE SliceTo(str, IndexOf(str, "?"))

\* what C10 says apart from the slashes
ParserExamples ==
  /\ parsed.done =>
       /\ input \in {<<>>, S_memory} =>
            parsed.path = S_memory /\ parsed.params = <<>>
       /\ input = S_example =>
            /\ parsed.path = <<"/">> \o S_tmp_db
            /\ parsed.params = <<[key |-> S_mode, value |-> S_ro]>>
       /\ (StartsWith(input, S_file) /\ LeadingSlashes(Slice(input, 5)) = 0
             /\ PathPart(Slice(input, 5)) \notin {<<>>, S_memory}) =>
            parsed.path = PathResolve(PathPart(Slice(input, 5)))
  /\ (input = S_example /\ conn[1].obj \in {"live", "failed"}) =>
       \E i \in DOMAIN conn[1].args : conn[1].args[i] = S_readonly

\* C10 as stated: after the "file:" prefix, a remainder that begins with
\* "//" loses one "/".
C10_CollapsesOneSlash ==
  /\ ParserExamples
  /\ (parsed.done /\ StartsWith(input, S_file)) =>
       LET n == LeadingSlashes(Slice(input, 5))
       IN n >= 1 => LeadingSlashes(parsed.path) = (IF n >= 2 THEN n - 1 ELSE n)

\* C10 amended: after the "file:" prefix, a remainder that begins with "///"
\* loses two of its slashes and any other remainder is kept as it is; the
\* empty string and ":memory:" give (":memory:", {}), and
\* "file:///tmp/db?mode=ro" gives ("/tmp/db", {mode: "ro"}) and "--readonly=1"
\* among the native arguments.
C10_DropsTwoOfThreeSlashes ==
  /\ ParserExamples
  /\ (parsed.done /\ StartsWith(input, S_file)) =>
       LET n == LeadingSlashes(Slice(input, 5))
       IN n >= 1 => LeadingSlashes(parsed.path) = (IF n >= 3 THEN n - 2 ELSE n)

\* C10 witness: the example DSN parsed and a Connection built from it
C10_Witness ==
  /\ parsed.done /\ input = S_example
  /\ conn[1].obj = "live"

\* ---------------------------------------------------------------- C11
\* the argument the claim gives for one parameter
ClaimedArg(e) ==
  IF e.key = S_mode /\ e.value = S_ro THEN S_readonly
  ELSE IF e.key = S_dashes THEN S_dashes
  ELSE IF e.value = <<>> THEN S_dashes \o e.key
  ELSE S_dashes \o e.key \o <<"=">> \o e.value

\* The argument list starts with the engine's name, then "--path=<path>"
\* unless the path is ":memory:", and what follows holds exactly one
\* argument, the claimed one, for each parameter whose index is in keep.
ArgsCover(args, path, params, keep) ==
  LET n == IF path # S_memory THEN 2 ELSE 1
      rest == Slice(args, n)
  IN /\ Len(args) >= n
     /\ args[1] = S_clickhouse
     /\ path # S_memory => args[2] = S_path_eq \o path
     /\ Len(rest) = Cardinality(keep)
     /\ \E f \in [keep -> DOMAIN rest] :
          /\ \A i, j \in keep : f[i] = f[j] => i = j
          /\ \A i \in keep : rest[f[i]] = ClaimedArg(params[i])

Built(c) == conn[c].obj \in {"live", "failed"}

\* C11 as stated: the argument list of a constructed Connection is the
\* engine token, "--path=<path>" unless the path is ":memory:", then exactly
\* one entry per parameter of the parsed DSN (mode=ro gives --readonly=1, the
\* key "--" a bare "--", an empty value "--key", anything else "--key=value").
C11_OneEntryPerParam ==
  \A c \in ConnIds :
    Built(c) => ArgsCover(conn[c].args, conn[c].path, conn[c].params,
                          DOMAIN conn[c].params)

\* the parameters that give an argument: all but a `mode` other than "ro"
GivesArg(params) ==
  {i \in DOMAIN params : ~(params[i].key = S_mode /\ params[i].value # S_ro)}

\* C11 amended: the argument list of a constructed Connection is the engine
\* token, "--path=<path>" unless the path is ":memory:", then exactly one
\* entry per parameter of the parsed DSN other than a `mode` whose value is
\* not "ro", which gives no entry (mode=ro gives --readonly=1, the key "--" a
\* bare "--", an empty value "--key", anything else "--key=value").
C11_OneEntryPerParamButMode ==
  \A c \in ConnIds :
    Built(c) => ArgsCover(conn[c].args, conn[c].path, conn[c].params,
                          GivesArg(conn[c].params))

\* C11 witness: a Connection built from a DSN whose parameters hold a
\* `mode`, the separator and two other keys, on a path that is not ":memory:"
C11_Witness ==
  \E c \in ConnIds :
    /\ Built(c) /\ conn[c].path # S_memory
    /\ HasKey(conn[c].params, S_mode) /\ HasKey(conn[c].params, S_dashes)
    /\ Len(conn[c].params) >= 4
    /\ Len(conn[c].args) = 2 + Len(conn[c].params)

\* ---------------------------------------------------------------- C12
\* C12 as stated: every native fetch on a stream handle comes right after an
\* error-state query on it (each pull checks first), and a cursor whose
\* check found the error set has ended raising with no fetch made.
C12_EveryPullChecksFirst ==
  \A s \in StreamIds :
    /\ \A i \in DOMAIN trace[s] :
         trace[s][i] = "fetch" => (i > 1 /\ trace[s][i - 1] = "error")
    /\ stream[s].exit = "initError" => "fetch" \notin Events(s)

\* a pull has just left the generator body of s
PullEnded(s) == stream[s].gen # "completed" /\ stream'[s].gen = "completed" /\ trace'[s] # trace[s]

\* C12 amended: the first pull on a cursor queries the cursor's error state
\* before anything else and, if it is set, raises and ends the cursor
\* without invoking native fetch; every later pull invokes native fetch
\* without a preceding query (the state is queried again only after a fetch
\* that returned null), and no fetch follows a query that found an error.
C12_FirstPullChecksFirst ==
  /\ [](\A s \in StreamIds :
          /\ (Events(s) \cap {"fetch", "unregister"} # {}) => trace[s][1] = "error"
          /\ \A i \in DOMAIN trace[s] :
               trace[s][i] = "fetch" =>
                 /\ i > 1
                 /\ trace[s][i - 1] = (IF i = 2 THEN "error" ELSE "fetch")
          /\ stream[s].exit \in {"initError", "fetchError"} =>
               /\ stream[s].gen = "completed"
               /\ Len(trace[s]) >= 3
               /\ SubSeq(trace[s], Len(trace[s]) - 2, Len(trace[s]))
                    = <<"error", "unregister", "destroy">>
          /\ stream[s].exit = "initError" => "fetch" \notin Events(s))
  /\ [][\A s \in StreamIds :
          (stream[s].gen = "suspendedStart" /\ streamErr[s] /\ PullEnded(s)) =>
            (stream'[s].exit = "initError" /\ "fetch" \notin {trace'[s][i] : i \in DOMAIN trace'[s]})]_vars
  /\ [][\A s \in StreamIds :
          (stream[s].gen = "suspendedStart" /\ streamErr[s]) =>
            Count(trace'[s], "fetch") = Count(trace[s], "fetch")]_vars

\* C12 witness: a cursor whose first pull found the error state set
C12_Witness ==
  \E s \in StreamIds :
    /\ stream[s].exit = "initError"
    /\ trace[s] = <<"error", "unregister", "destroy">>

\* ---------------------------------------------------------------- C13
\* C13: a null return from native fetch is followed by a second error-state
\* query and ends the cursor, raising when the error is set and normally
\* when it is not; once the generator is completed (exhausted, returned or
\* raised) it stays completed, a pull on it delivers no element and makes no
\* native call on the stream handle, and no call is ever made on a stream
\* handle after its destroy call.
C13_TerminalIsAbsorbing ==
  /\ [](\A s \in StreamIds :
          /\ "destroy" \in Events(s) =>
               /\ trace[s][Len(trace[s])] = "destroy"
               /\ Count(trace[s], "destroy") = 1
          /\ NullReturned(s) =>
               /\ stream[s].gen = "completed"
               /\ stream[s].exit = (IF streamErr[s] THEN "fetchError" ELSE "nullReturn")
               /\ SubSeq(trace[s], Len(trace[s]) - 3, Len(trace[s]))
                    = <<"fetch", "error", "unregister", "destroy">>
          /\ stream[s].gen = "completed" <=> stream[s].exit # "none")
  /\ [][\A s \in StreamIds :
          stream[s].gen = "completed" =>
            /\ stream'[s].gen = "completed"
            /\ stream'[s].exit = stream[s].exit
            /\ delivered'[s] = delivered[s]
            /\ fetched'[s] = fetched[s]
            /\ stream[s].obj = "live" => trace'[s] = trace[s]
            /\ trace'[s] # trace[s] =>
                 /\ ~CleanupRan(s)
                 /\ stream'[s].obj = "collected"
                 /\ trace'[s] = trace[s] \o <<"cancel", "destroy">>]_vars

\* C13 witness: a cursor that delivered two chunks, got a null return with
\* no error, and is still held by its consumer, who may pull again
C13_Witness ==
  \E s \in StreamIds :
    /\ stream[s].obj = "live" /\ stream[s].gen = "completed"
    /\ stream[s].exit = "nullReturn"
    /\ Len(delivered[s]) = 2
    /\ ENABLED PullDone(s)

\* ---------------------------------------------------------------- C14
\* a call of Connection.stream has just returned or raised
StreamCalled == last' # last /\ last'.op = "stream"

\* C14: a Connection.stream call whose native streaming-start returned null
\* raises and leaves no cursor, no registration and no call on any stream
\* handle behind; a call whose streaming-start returned a handle produces
\* one cursor, not yet started, registered exactly once; a cursor that was
\* never produced has no registration and no native call.
C14_StreamStartIsAtomic ==
  /\ [](\A s \in StreamIds :
          stream[s].obj = "absent" =>
            /\ streamRegistry[s] = 0
            /\ trace[s] = <<>> /\ fetched[s] = <<>> /\ delivered[s] = <<>>)
  /\ [][(StreamCalled /\ last'.ret # "ptr") =>
          /\ last'.raised
          /\ stream' = stream /\ streamRegistry' = streamRegistry
          /\ trace' = trace /\ fetched' = fetched /\ delivered' = delivered]_vars
  /\ [][(StreamCalled /\ last'.ret = "ptr") =>
          /\ ~last'.raised
          /\ trace' = trace /\ fetched' = fetched /\ delivered' = delivered
          /\ \E s \in StreamIds :
               /\ stream[s].obj = "absent"
               /\ stream'[s].obj = "live" /\ stream'[s].gen = "suspendedStart"
               /\ stream'[s].connPtr = last'.handle
               /\ streamRegistry[s] = 0 /\ streamRegistry'[s] = 1
               /\ \A t \in StreamIds \ {s} :
                    stream'[t] = stream[t] /\ streamRegistry'[t] = streamRegistry[t]]_vars

\* C14 witness: the last call was a Connection.stream whose streaming-start
\* returned null, on a Connection that has no cursor
C14_Witness ==
  /\ last.op = "stream" /\ last.ret = "null" /\ last.raised /\ last.handle # NULL
  /\ \A s \in StreamIds : stream[s].obj = "absent"

\* ---------------------------------------------------------------- C15
\* C15: a Connection.query or Connection.stream call whose read through the
\* stored handle gave null raises without calling query_conn or
\* query_conn_streaming (no pointer is passed to the engine, nothing is
\* returned, no state changes); a query_conn that returned null raises and
\* no block is decoded or freed; a call that returned normally passed a
\* non-null connection pointer.
C15_ClearedHandleRaises ==
  /\ [](last.op \in {"connQuery", "stream"} =>
          /\ last.handle = NULL =>
               last.raised /\ last.ret = "none" /\ last.block = NoBlock
          /\ last.ret = "null" =>
               last.raised /\ last.block = NoBlock /\ last.block.ops = <<>> /\ last.rows = 0
          /\ ~last.raised => last.handle # NULL /\ last.ret \in {"block", "ptr"})
  /\ [][(last' # last /\ last'.op \in {"connQuery", "stream"} /\ last'.handle = NULL) =>
          UNCHANGED <<connVars, usedAfterClose, streamVars>>]_vars

\* C15 witness: a query on a Connection that holds a started stream read a
\* null connection pointer and raised
C15_Witness ==
  /\ last.op = "connQuery" /\ last.handle = NULL /\ last.raised
  /\ \E s \in StreamIds : stream[s].conn = last.conn /\ Len(delivered[s]) >= 1

\* ---------------------------------------------------------------- C16
\* C16: no step of a cursor (its creation, a pull, its exhaustion, its
\* return, a raise, the stream registry's callback) calls close_conn or
\* changes a Connection, its stored handle or its registration; close_conn
\* has only ever been called for a Connection that was itself collected.
C16_CursorNeverClosesConn ==
  /\ [](\A c \in ConnIds : closeCalls[c] > 0 => conn[c].obj = "collected")
  /\ [][streamVars' # streamVars =>
          /\ closeCalls' = closeCalls
          /\ conn' = conn
          /\ connectionRegistry' = connectionRegistry]_vars

\* C16 witness: a cursor dropped between two pulls has been reclaimed by the
\* stream registry's callback while its Connection is still open
C16_Witness ==
  \E s \in StreamIds :
    /\ stream[s].obj = "collected" /\ "cancel" \in Events(s)
    /\ Len(delivered[s]) >= 1
    /\ conn[stream[s].conn].obj = "live"
    /\ closeCalls[stream[s].connPtr] = 0

\* ---------------------------------------------------------------- C17
\* the pairs of a DSN's query component, and the value of the last pair
\* with a given key
QueryOf(str) ==
  IF IndexOf(str, "?") = -1 THEN <<>>
  ELSE URLSearchParams(Slice(str, IndexOf(str, "?") + 1))

SearchLast(search, k) ==
  search[CHOOSE i \in 1..Len(search) :
           search[i].key = k /\ \A j \in (i + 1)..Len(search) : search[j].key # k].value

\* the keys the udf_path rule writes
UdfKeys == {S_udf_path, S_dashes, S_user_scripts_path, S_udf_config}

\* C17: the parsed parameters hold, for every key of the query, the value of
\* its last occurrence; and whenever the query has a `udf_path` key, with any
\* value and any number of times, the result has no `udf_path`, a bare
\* separator, user_scripts_path = udfPath and
\* user_defined_executable_functions_config = udfPath + "/*.xml", udfPath
\* being the last value given for `udf_path`.
C17_UdfPathReplaced ==
  (parsed.done /\ input \notin {<<>>, S_memory}) =>
    LET search == QueryOf(input)
        hasUdf == SearchHas(search, S_udf_path)
    IN /\ \A i \in 1..Len(search) :
            (search[i].key \notin UdfKeys \/ (~hasUdf /\ search[i].key # S_udf_path)) =>
              /\ HasKey(parsed.params, search[i].key)
              /\ GetKey(parsed.params, search[i].key) = SearchLast(search, search[i].key)
       /\ hasUdf =>
            LET udfPath == SearchLast(search, S_udf_path)
            IN /\ ~HasKey(parsed.params, S_udf_path)
               /\ HasKey(parsed.params, S_dashes)
               /\ GetKey(parsed.params, S_dashes) = <<>>
               /\ HasKey(parsed.params, S_user_scripts_path)
               /\ GetKey(parsed.params, S_user_scripts_path) = udfPath
               /\ HasKey(parsed.params, S_udf_config)
               /\ GetKey(parsed.params, S_udf_config) = udfPath \o S_xml

\* ---------------------------------------------------------------- C18
\* C18: a construction whose connect_chdb returned null raises with no
\* handle stored and no registration, and close_conn is never called for
\* it; a construction whose connect_chdb returned a handle stores that handle
\* and registers the Connection exactly once; each construction ends in one
\* of the two, once.
C18_ConnectStoresAndRegistersOnce ==
  /\ [](\A c \in ConnIds :
          /\ conn[c].obj \in {"absent", "failed"} =>
               /\ conn[c].ptr = NULL
               /\ connectionRegistry[c] = 0
               /\ closeCalls[c] = 0
          /\ conn[c].obj \in {"live", "dropped", "collected"} =>
               /\ conn[c].ptr # NULL
               /\ connectionRegistry[c] + closeCalls[c] = 1)
  /\ [][\A c \in ConnIds :
          /\ conn[c].obj # "absent" =>
               conn'[c].ptr = conn[c].ptr /\ (conn[c].obj = "failed" => conn'[c] = conn[c])
          /\ (conn[c].obj = "absent" /\ conn'[c].obj # "absent") =>
               /\ conn'[c].obj \in {"live", "failed"}
               /\ connectionRegistry'[c] = (IF conn'[c].obj = "live" THEN 1 ELSE 0)
               /\ closeCalls' = closeCalls]_vars

\* C18 witness: a construction has failed on a null return, after its
\* argument list was built
C18_Witness ==
  \E c \in ConnIds :
    /\ conn[c].obj = "failed" /\ conn[c].args # <<>>
    /\ connectionRegistry[c] = 0

\* ---------------------------------------------------------------- C19
\* the cursor can still be pulled
Streaming(s) ==
  stream[s].obj = "live" /\ stream[s].gen \in {"suspendedStart", "suspendedYield"}

\* C19: no native call that takes a connection handle (query_conn,
\* query_conn_streaming, chdb_streaming_fetch_result,
\* chdb_streaming_cancel_query) is made after close_conn was called for that
\* handle, and the Connection of a cursor that can still be pulled has not
\* been reclaimed.
C19_NoUseAfterClose ==
  /\ \A c \in ConnIds : ~usedAfterClose[c]
  /\ \A s \in StreamIds :
       Streaming(s) =>
         /\ conn[stream[s].conn].obj # "collected"
         /\ closeCalls[stream[s].connPtr] = 0

\* ---------------------------------------------------------------- C20
Destroyed(s) == "destroy" \in Events(s)

\* C20: every stream handle a successful query_conn_streaming returned is
\* eventually destroyed, when the consumer eventually exhausts, returns or
\* drops the cursor and the registry eventually runs the callback of every
\* collected registered object.
C20_StreamEventuallyDestroyed ==
  \A s \in StreamIds : [](Created(s) => <>Destroyed(s))

====
